---- MODULE Spec2Model ----
(***************************************************************************)
(* brows: the release browser of src/brows.go (lines 1-450, the variant    *)
(* that keeps a sorted TagList with prev/next links and a *tag focus).     *)
(*                                                                         *)
(* The model is the bubbletea session: the model struct, the message the   *)
(* fetch command posts, and one action per message type that Update        *)
(* handles; every step is one call of Update.  Pointers into the tagList   *)
(* slice are indices 1..Len(tagList), the nil pointer is 0 (so the source's *)
(* position i is the model's i + 1).  A nil dereference panics: the        *)
(* session ends ("crashed") and the model Update was working on is never   *)
(* returned, so the model fields keep the values they had before the       *)
(* message.  log.Fatalf ends the process ("fatal").  `return m, tea.Quit`  *)
(* ends the session ("quit").  The spinner's frame is not part of the      *)
(* state.                                                                  *)
(***************************************************************************)
EXTENDS Integers, Sequences, FiniteSets, TLC

VARIABLES
    owner,           \* model.owner
    repo,            \* model.repo
    status,          \* "running" | "quit" | "crashed" | "fatal"
    version,         \* model.version: the parsed starting version
    fetch,           \* the getReleases command: in flight, or the message
                     \* it posted once Update has handled it
    loaded,          \* model.loaded
    releases,        \* model.releases: raw tag -> description
    tagList,         \* model.tagList: sorted, linked tags
    focus,           \* model.focus: index into tagList, 0 = nil
    viewport,        \* model.viewport
    viewReady,       \* model.viewReady
    err,             \* model.err
    msg,             \* the message the last Update call received
    setContentCalls, \* number of viewport.SetContent calls in that Update
    call             \* a helper function called on its own: its arguments
                     \* and, once it has returned, its result

vars == <<owner, repo, status, version, fetch, loaded, releases, tagList,
          focus, viewport, viewReady, err, msg, setContentCalls, call>>

\* what no message handled by Update assigns
static == <<owner, repo, call>>

model == <<version, loaded, releases, tagList, focus, viewport, viewReady, err>>

----------------------------------------------------------------------------
(* Bounds of the model *)

\* largest release set a fetch returns
MaxReleases == 3

----------------------------------------------------------------------------
(* Raw tag strings and semantic versions (github.com/masterminds/semver)   *)

\* A raw tag string  <prefix><major>.<minor>.<patch>[-<pre>]
Tag(prefix, major, minor, patch, pre) ==
    [prefix |-> prefix, major |-> major, minor |-> minor, patch |-> patch,
     pre |-> pre]

\* A parsed version; Original() is the raw string it was parsed from
Ver(major, minor, patch, pre) ==
    [major |-> major, minor |-> minor, patch |-> patch, pre |-> pre]

ParseError == Ver(-1, -1, -1, "parse error")

\* semver.NewVersion: an optional leading "v", then major.minor.patch and an
\* optional prerelease; anything else in front does not match the grammar
NewVersion(t) ==
    IF t.prefix \in {"", "v"}
    THEN Ver(t.major, t.minor, t.patch, t.pre)
    ELSE ParseError

\* Order of the prerelease identifiers used here (ASCII order of the text)
PreRank(p) == CASE p = "alpha" -> 1 [] p = "beta" -> 2 [] OTHER -> 0

\* Version.Compare: -1, 0, 1.  Major, minor, patch numerically; then a
\* version without prerelease outranks one with; then the prereleases
Compare(a, b) ==
    IF a.major # b.major THEN (IF a.major < b.major THEN -1 ELSE 1)
    ELSE IF a.minor # b.minor THEN (IF a.minor < b.minor THEN -1 ELSE 1)
    ELSE IF a.patch # b.patch THEN (IF a.patch < b.patch THEN -1 ELSE 1)
    ELSE IF a.pre = "" /\ b.pre = "" THEN 0
    ELSE IF a.pre = "" THEN 1
    ELSE IF b.pre = "" THEN -1
    ELSE IF PreRank(a.pre) = PreRank(b.pre) THEN 0
    ELSE IF PreRank(a.pre) < PreRank(b.pre) THEN -1 ELSE 1

LessThan(a, b) == Compare(a, b) < 0

GreaterThan(a, b) == Compare(a, b) > 0

----------------------------------------------------------------------------
(* The inputs of a session *)

\* the raw tags a fetched release can carry
TagUniverse ==
    { Tag("v", 0, 0, 0, ""),
      Tag("v", 1, 0, 0, ""),   Tag("", 1, 0, 0, ""),
      Tag("v", 1, 1, 0, ""),   Tag("", 1, 1, 1, ""),
      Tag("v", 2, 0, 0, "beta"),
      Tag("release-", 3, 0, 0, "") }

\* release bodies: one that fits the viewport and one that needs scrolling
Descriptions == {"short", "long"}

\* the starting versions given on the command line ("0.0.0" when omitted)
StartVersions == { Ver(0, 0, 0, ""), Ver(1, 0, 0, ""), Ver(2, 0, 0, "") }

\* terminal sizes reported by tea.WindowSizeMsg: <<Width, Height>>
WindowSizes == { <<80, 8>>, <<100, 10>> }

\* the release maps getReleases can build: raw tag -> description
ReleaseMaps ==
    UNION { [ts -> Descriptions] :
              ts \in { s \in SUBSET TagUniverse : Cardinality(s) <= MaxReleases } }

NoReleases == [t \in {} |-> "short"]

----------------------------------------------------------------------------
(* sortedTags and findTag *)

Max(a, b) == IF a > b THEN a ELSE b

Min(a, b) == IF a < b THEN a ELSE b

\* the orders in which `for k := range m.releases` can visit a key set
Orderings(S) ==
    { s \in [1..Cardinality(S) -> S] :
        \A i, j \in 1..Cardinality(S) : i # j => s[i] # s[j] }

\* a tag struct with nil links
\* mutant of NewTag: the tag kept is "v" + parsed.String(), as findVersion
\* returns it, not the raw string
NewTagMutNormalised(t) ==
    [tag |-> [t EXCEPT !.prefix = "v"], parsed |-> NewVersion(t),
     prev |-> 0, next |-> 0]

NewTag(t) == [tag |-> t, parsed |-> NewVersion(t), prev |-> 0, next |-> 0]

\* mutant of TagListLess: the comparison is reversed
TagListLessMutGreater(tl, i, j) == GreaterThan(tl[i].parsed, tl[j].parsed)

\* TagList.Less
TagListLess(tl, i, j) == LessThan(tl[i].parsed, tl[j].parsed)

\* sort.Sort(TagList(tagList)): not stable, so every rearrangement of tl in
\* which no element is Less than an earlier one is a possible result
SortSort(tl) ==
    { [i \in 1..Len(tl) |-> tl[p[i]]] : p \in
        { q \in Orderings(1..Len(tl)) :
            LET s == [i \in 1..Len(tl) |-> tl[q[i]]]
            IN  \A i, j \in 1..Len(tl) : i < j => ~TagListLess(s, j, i) } }

\* mutant of LinkTags: the two links are exchanged
LinkTagsMutSwapped(tl) ==
    [i \in 1..Len(tl) |->
        [tl[i] EXCEPT !.next = IF i > 1 THEN i - 1 ELSE 0,
                      !.prev = IF i < Len(tl) THEN i + 1 ELSE 0]]

\* mutant of LinkTags: the list is closed into a ring
LinkTagsMutRing(tl) ==
    [i \in 1..Len(tl) |->
        [tl[i] EXCEPT !.prev = IF i > 1 THEN i - 1 ELSE Len(tl),
                      !.next = IF i < Len(tl) THEN i + 1 ELSE 1]]

\* the loop that links every element to its neighbours
LinkTags(tl) ==
    [i \in 1..Len(tl) |->
        [tl[i] EXCEPT !.prev = IF i > 1 THEN i - 1 ELSE 0,
                      !.next = IF i < Len(tl) THEN i + 1 ELSE 0]]

\* mutant of sortedTagsFatal: the parse error is ignored
sortedTagsFatalMutIgnored(tags) == FALSE

\* sortedTags calls log.Fatalf on the first tag that does not parse
sortedTagsFatal(tags) ==
    \E i \in 1..Len(tags) : NewVersion(tags[i]) = ParseError

\* sortedTags: the possible results for a slice of raw tags that all parse
sortedTags(tags) ==
    { LinkTags(s) : s \in SortSort([i \in 1..Len(tags) |-> NewTag(tags[i])]) }

\* findTag: scans the list from the front and returns a pointer to the
\* first element greater than current; nil (0) and an error when none is
RECURSIVE findTagFrom(_, _, _)
findTagFrom(current, tl, i) ==
    IF i > Len(tl) THEN 0
    ELSE IF GreaterThan(tl[i].parsed, current) THEN i
    ELSE findTagFrom(current, tl, i + 1)

\* mutant of findTag: the comparison admits an equal version
RECURSIVE findTagFromGeq(_, _, _)
findTagFromGeq(current, tl, i) ==
    IF i > Len(tl) THEN 0
    ELSE IF ~LessThan(tl[i].parsed, current) THEN i
    ELSE findTagFromGeq(current, tl, i + 1)

findTagMutGeq(current, tl) == findTagFromGeq(current, tl, 1)

findTag(current, tl) == findTagFrom(current, tl, 1)

----------------------------------------------------------------------------
(* The viewport (github.com/charmbracelet/bubbles/viewport) and the        *)
(* markdown renderer (glamour), as far as Update and the views use them    *)

\* lines of a rendered short / long description
ShortLines == 1

LongLines == 4

\* glamour.Render(description, "dark")
Render(description) == [style |-> "dark", text |-> description]

\* a viewport that never had SetContent called
NoContent == [style |-> "", text |-> ""]

\* viewport.TotalLineCount
TotalLineCount(vp) ==
    CASE vp.content.text = "short" -> ShortLines
      [] vp.content.text = "long"  -> LongLines
      [] OTHER -> 0

\* viewport.VisibleLineCount: the lines from YOffset to YOffset+Height
VisibleLineCount(vp) ==
    IF TotalLineCount(vp) = 0 THEN 0
    ELSE LET top    == Max(0, vp.YOffset)
             bottom == Max(top, Min(vp.YOffset + vp.Height, TotalLineCount(vp)))
         IN  bottom - top

\* the zero value of viewport.Model, as initialModel leaves it
ZeroViewport ==
    [Width |-> 0, Height |-> 0, YPosition |-> 0, YOffset |-> 0,
     content |-> NoContent, keys |-> FALSE]

\* viewport.New(width, height): a fresh viewport with the default key map
ViewportNew(width, height) ==
    [Width |-> width, Height |-> height, YPosition |-> 0, YOffset |-> 0,
     content |-> NoContent, keys |-> TRUE]

maxYOffset(vp) == Max(0, TotalLineCount(vp) - vp.Height)

\* viewport.SetContent: replaces the lines; an offset past the new end goes
\* to the bottom
SetContent(vp, out) ==
    LET v == [vp EXCEPT !.content = out]
    IN  IF v.YOffset > TotalLineCount(v) - 1
        THEN [v EXCEPT !.YOffset = maxYOffset(v)]
        ELSE v

\* viewport.Update for a key: "j" scrolls a line down, "k" a line up; a
\* viewport without key map (never initialised) ignores every key
ViewportUpdate(vp, key) ==
    IF ~vp.keys THEN vp
    ELSE IF key = "j" /\ vp.YOffset < maxYOffset(vp)
         THEN [vp EXCEPT !.YOffset = Min(vp.YOffset + 1, maxYOffset(vp))]
    ELSE IF key = "k" /\ vp.YOffset > 0
         THEN [vp EXCEPT !.YOffset = Max(vp.YOffset - 1, 0)]
    ELSE vp

\* lipgloss.Height(m.headerView()): the timeline line and the bordered title
headerHeight == 4

\* lipgloss.Height(m.footerView()): a flat divider, or the bordered percentage
footerHeight(vp) ==
    IF VisibleLineCount(vp) >= TotalLineCount(vp) THEN 1 ELSE 3

----------------------------------------------------------------------------
(* The session *)

QuitKeys == {"ctrl+c", "q", "esc"}

PrevKeys == {"left", "h"}

NextKeys == {"right", "l"}

ScrollKeys == {"j", "k"}

\* the owner and repository named on the command line
Owners == {"alice"}

Repos == {"hello"}

\* no helper function is called on its own during a session
NoCall == [fn |-> "none", args |-> <<>>, done |-> FALSE, result |-> 0]

\* mutant of Init: initialModel builds the model with loaded set
InitMutLoaded ==
    /\ owner \in Owners
    /\ repo \in Repos
    /\ call = NoCall
    /\ status = "running"
    /\ version \in StartVersions
    /\ fetch = [st |-> "inflight", kind |-> "none", releases |-> NoReleases]
    /\ loaded = TRUE
    /\ releases = NoReleases
    /\ tagList = <<>>
    /\ focus = 0
    /\ viewport = ZeroViewport
    /\ viewReady = FALSE
    /\ err = "nil"
    /\ msg = "none"
    /\ setContentCalls = 0

\* initialModel, and Init's getReleases command in flight
Init ==
    /\ owner \in Owners
    /\ repo \in Repos
    /\ call = NoCall
    /\ status = "running"
    /\ version \in StartVersions
    /\ fetch = [st |-> "inflight", kind |-> "none", releases |-> NoReleases]
    /\ loaded = FALSE
    /\ releases = NoReleases
    /\ tagList = <<>>
    /\ focus = 0
    /\ viewport = ZeroViewport
    /\ viewReady = FALSE
    /\ err = "nil"
    /\ msg = "none"
    /\ setContentCalls = 0

\* the messages the command returned by getReleases can post: errMsg, or
\* loadedReleases with the map it built from the listed releases
getReleases ==
    { [st |-> "handled", kind |-> "errMsg", releases |-> NoReleases] } \cup
    { [st |-> "handled", kind |-> "loadedReleases", releases |-> rs] :
        rs \in ReleaseMaps }

\* a panic or log.Fatalf inside Update: the session ends, m is never returned
Abort(how) ==
    /\ status' = how
    /\ setContentCalls' = 0
    /\ UNCHANGED model

\* the focused release's description goes to the viewport when the release
\* map has the focused tag: the viewport and the number of SetContent calls
ShowFocus(rel, tl, f, vp) ==
    IF tl[f].tag \in DOMAIN rel
    THEN <<SetContent(vp, Render(rel[tl[f].tag])), 1>>
    ELSE <<vp, 0>>

\* mutant of UpdateLoadedReleases: the lookup of the focused release is
\* skipped when findTag found nothing, so the model is returned loaded with
\* a nil focus
UpdateLoadedReleasesMutNilFocus ==
    /\ status = "running"
    /\ UNCHANGED static
    /\ fetch.st = "inflight"
    /\ fetch' \in getReleases /\ fetch'.kind = "loadedReleases"
    /\ msg' = "loadedReleases"
    /\ \E tags \in Orderings(DOMAIN fetch'.releases) :
         IF sortedTagsFatal(tags) THEN Abort("fatal")
         ELSE \E tl \in sortedTags(tags) :
           LET nextTag == findTag(version, tl)
               shown   == IF nextTag = 0 THEN <<viewport, 0>>
                          ELSE ShowFocus(fetch'.releases, tl, nextTag, viewport)
           IN  /\ releases' = fetch'.releases
               /\ tagList' = tl
               /\ loaded' = TRUE
               /\ err' = IF nextTag = 0 THEN "Could not find version after" ELSE err
               /\ focus' = nextTag
               /\ viewport' = shown[1]
               /\ setContentCalls' = shown[2]
               /\ UNCHANGED <<status, version, viewReady>>

\* Update, case loadedReleases
UpdateLoadedReleases ==
    /\ status = "running"
    /\ UNCHANGED static
    /\ fetch.st = "inflight"
    /\ fetch' \in getReleases /\ fetch'.kind = "loadedReleases"
    /\ msg' = "loadedReleases"
    /\ \E tags \in Orderings(DOMAIN fetch'.releases) :
         IF sortedTagsFatal(tags) THEN Abort("fatal")
         ELSE \E tl \in sortedTags(tags) :
           LET nextTag  == findTag(version, tl)
               newErr   == IF nextTag = 0 THEN "Could not find version after" ELSE err
               newFocus == IF nextTag = 0 THEN focus ELSE nextTag
           IN  IF newFocus = 0 THEN Abort("crashed")   \* m.focus.tag, m.focus nil
               ELSE LET shown == ShowFocus(fetch'.releases, tl, newFocus, viewport)
                    IN  /\ releases' = fetch'.releases
                        /\ tagList' = tl
                        /\ loaded' = TRUE
                        /\ err' = newErr
                        /\ focus' = newFocus
                        /\ viewport' = shown[1]
                        /\ setContentCalls' = shown[2]
                        /\ UNCHANGED <<status, version, viewReady>>

\* mutant of UpdateErrMsg: the error is noted but tea.Quit is not returned
UpdateErrMsgMutNoQuit ==
    /\ status = "running"
    /\ UNCHANGED static
    /\ fetch.st = "inflight"
    /\ fetch' \in getReleases /\ fetch'.kind = "errMsg"
    /\ msg' = "errMsg"
    /\ err' = "fetch error"
    /\ setContentCalls' = 0
    /\ UNCHANGED <<status, version, loaded, releases, tagList, focus, viewport, viewReady>>

\* Update, case errMsg
UpdateErrMsg ==
    /\ status = "running"
    /\ UNCHANGED static
    /\ fetch.st = "inflight"
    /\ fetch' \in getReleases /\ fetch'.kind = "errMsg"
    /\ msg' = "errMsg"
    /\ err' = "fetch error"
    /\ status' = "quit"
    /\ setContentCalls' = 0
    /\ UNCHANGED <<version, loaded, releases, tagList, focus, viewport, viewReady>>

\* mutant of UpdateKeyQuit: "esc" is not among the keys that quit
UpdateKeyQuitMutEscIgnored ==
    /\ status = "running"
    /\ UNCHANGED static
    /\ \E k \in QuitKeys :
         /\ msg' = k
         /\ status' = IF k = "esc" THEN status ELSE "quit"
    /\ setContentCalls' = 0
    /\ UNCHANGED <<model, fetch>>

\* Update, case tea.KeyMsg "ctrl+c", "q", "esc"
UpdateKeyQuit ==
    /\ status = "running"
    /\ UNCHANGED static
    /\ \E k \in QuitKeys : msg' = k
    /\ status' = "quit"
    /\ setContentCalls' = 0
    /\ UNCHANGED <<model, fetch>>

\* mutant of MoveFocus: the tag list is built anew from the release map on
\* every move
MoveFocusMutRebuild(t) ==
    LET shown == ShowFocus(releases, tagList, t, viewport)
    IN  /\ focus' = t
        /\ viewport' = shown[1]
        /\ setContentCalls' = shown[2]
        /\ \E tags \in Orderings(DOMAIN releases) : tagList' \in sortedTags(tags)
        /\ UNCHANGED <<status, version, loaded, releases, viewReady, err>>

\* m.focus = t, then the lookup of the focused release and SetContent
MoveFocus(t) ==
    LET shown == ShowFocus(releases, tagList, t, viewport)
    IN  /\ focus' = t
        /\ viewport' = shown[1]
        /\ setContentCalls' = shown[2]
        /\ UNCHANGED <<status, version, loaded, releases, tagList, viewReady, err>>

\* mutant of NoMove: the focused release is shown again
NoMoveMutRerender ==
    /\ viewport' = SetContent(viewport, Render(releases[tagList[focus].tag]))
    /\ setContentCalls' = 1
    /\ UNCHANGED <<status, version, loaded, releases, tagList, focus, viewReady, err>>

\* a navigation key at the end of the list: nothing is assigned
NoMove ==
    /\ setContentCalls' = 0
    /\ UNCHANGED <<status, model>>

\* Update, case tea.KeyMsg "left", "h"
UpdateKeyLeft ==
    /\ status = "running"
    /\ UNCHANGED static
    /\ \E k \in PrevKeys : msg' = k
    /\ IF focus = 0 THEN Abort("crashed")              \* m.focus.prev, m.focus nil
       ELSE LET prevTag == tagList[focus].prev
            IN  IF prevTag # 0 THEN MoveFocus(prevTag) ELSE NoMove
    /\ UNCHANGED fetch

\* Update, case tea.KeyMsg "right", "l"
UpdateKeyRight ==
    /\ status = "running"
    /\ UNCHANGED static
    /\ \E k \in NextKeys : msg' = k
    /\ IF focus = 0 THEN Abort("crashed")              \* m.focus.next, m.focus nil
       ELSE LET nextTag == tagList[focus].next
            IN  IF nextTag # 0 THEN MoveFocus(nextTag) ELSE NoMove
    /\ UNCHANGED fetch

\* Update, case tea.KeyMsg, any other key: only m.viewport.Update sees it
UpdateKeyOther ==
    /\ status = "running"
    /\ UNCHANGED static
    /\ \E k \in ScrollKeys :
         /\ msg' = k
         /\ viewport' = ViewportUpdate(viewport, k)
    /\ setContentCalls' = 0
    /\ UNCHANGED <<status, version, loaded, releases, tagList, focus, viewReady, err, fetch>>

\* mutant of UpdateWindowSize: every resize builds a new viewport
UpdateWindowSizeMutAlwaysNew ==
    /\ status = "running"
    /\ UNCHANGED static
    /\ msg' = "WindowSizeMsg"
    /\ UNCHANGED fetch
    /\ \E ws \in WindowSizes :
         LET verticalMarginHeight == headerHeight + footerHeight(viewport)
         IN  /\ viewport' = [ViewportNew(ws[1], ws[2] - verticalMarginHeight)
                                EXCEPT !.YPosition = headerHeight]
             /\ viewReady' = TRUE
             /\ setContentCalls' = 0
             /\ UNCHANGED <<status, version, loaded, releases, tagList, focus, err>>

\* Update, case tea.WindowSizeMsg
UpdateWindowSize ==
    /\ status = "running"
    /\ UNCHANGED static
    /\ msg' = "WindowSizeMsg"
    /\ UNCHANGED fetch
    /\ \E ws \in WindowSizes :
         IF Len(tagList) > 0 /\ focus = 0 THEN Abort("crashed")  \* releaseList: m.focus.tag
         ELSE LET verticalMarginHeight == headerHeight + footerHeight(viewport)
              IN  /\ IF ~viewReady
                     THEN /\ viewport' = [ViewportNew(ws[1], ws[2] - verticalMarginHeight)
                                             EXCEPT !.YPosition = headerHeight]
                          /\ viewReady' = TRUE
                     ELSE /\ viewport' = [viewport EXCEPT !.Width = ws[1],
                                             !.Height = ws[2] - verticalMarginHeight]
                          /\ UNCHANGED viewReady
                  /\ setContentCalls' = 0
                  /\ UNCHANGED <<status, version, loaded, releases, tagList, focus, err>>

\* Update, default case: the spinner's tick
UpdateTick ==
    /\ status = "running"
    /\ UNCHANGED static
    /\ msg' = "spinner.TickMsg"
    /\ setContentCalls' = 0
    /\ UNCHANGED <<status, model, fetch>>

Next ==
    \/ UpdateLoadedReleases
    \/ UpdateErrMsg
    \/ UpdateKeyQuit
    \/ UpdateKeyLeft
    \/ UpdateKeyRight
    \/ UpdateKeyOther
    \/ UpdateWindowSize
    \/ UpdateTick

Spec == Init /\ [][Next]_vars

----------------------------------------------------------------------------
(* Helper functions, and their calls outside a session (as the unit tests  *)
(* of src/unnamed/part_005 call them)                                      *)

\* largest major, minor and patch number of the versions classified
MaxPart == 2

\* largest absolute value of the arguments clamp is called with
MaxClamp == 2

\* mutant of isMajor: the prerelease is not looked at
isMajorMutAnyPre(v) == v.minor = 0 /\ v.patch = 0

isMajor(v) == v.minor = 0 /\ v.patch = 0 /\ v.pre = ""

isMinor(v) == v.minor # 0 /\ v.patch = 0 /\ v.pre = ""

isPatch(v) == v.patch # 0 /\ v.pre = ""

\* mutant of clamp: an inverted range is used as it comes
clampMutNoSwap(v, low, high) == Min(high, Max(low, v))

\* clamp(value, low, high): value constrained to [low, high]; an inverted
\* range has its bounds swapped first
clamp(v, low, high) ==
    IF high < low THEN Min(low, Max(high, v)) ELSE Min(high, Max(low, v))

\* longest output of the CLI tool, in characters
MaxOut == 3

\* white space as strings.TrimSpace sees it
Space == {" ", "\n"}

\* strings.TrimLeft of white space
RECURSIVE TrimLeft(_)
TrimLeft(s) ==
    IF s = <<>> THEN s
    ELSE IF Head(s) \in Space THEN TrimLeft(Tail(s)) ELSE s

\* strings.TrimRight of white space
RECURSIVE TrimRight(_)
TrimRight(s) ==
    IF s = <<>> THEN s
    ELSE IF s[Len(s)] \in Space THEN TrimRight(SubSeq(s, 1, Len(s) - 1)) ELSE s

\* strings.TrimSpace
TrimSpace(s) == TrimRight(TrimLeft(s))

\* os.Getenv: the value of a variable that is set, the empty string otherwise
Getenv(e) == IF e.set THEN e.value ELSE <<>>

\* mutant of GetGHToken: the output of the CLI tool is used as it comes
GetGHTokenMutNoTrim(e, cli) ==
    IF Getenv(e) # <<>>
    THEN [token |-> Getenv(e), fatal |-> "none", cli |-> FALSE]
    ELSE IF ~cli.ok
    THEN [token |-> <<>>, fatal |-> "failed to retrieve token from gh CLI", cli |-> TRUE]
    ELSE IF cli.out = <<>>
    THEN [token |-> <<>>, fatal |-> "gh CLI did not return a token", cli |-> TRUE]
    ELSE [token |-> cli.out, fatal |-> "none", cli |-> TRUE]

\* util.GetGHToken: the token, the log.Fatal it ended with ("none" when it
\* returned), and whether "gh auth token" was run
GetGHToken(e, cli) ==
    IF Getenv(e) # <<>>
    THEN [token |-> Getenv(e), fatal |-> "none", cli |-> FALSE]
    ELSE IF ~cli.ok
    THEN [token |-> <<>>, fatal |-> "failed to retrieve token from gh CLI", cli |-> TRUE]
    ELSE IF TrimSpace(cli.out) = <<>>
    THEN [token |-> <<>>, fatal |-> "gh CLI did not return a token", cli |-> TRUE]
    ELSE [token |-> TrimSpace(cli.out), fatal |-> "none", cli |-> TRUE]

\* the variables of the session
session == <<owner, repo, status, version, fetch, loaded, releases, tagList,
             focus, viewport, viewReady, err, msg, setContentCalls>>

VersionGrid ==
    { Ver(a, b, c, p) : a \in 0..MaxPart, b \in 0..MaxPart, c \in 0..MaxPart,
                        p \in {"", "alpha", "beta"} }

ClassifyCalls ==
    { [fn |-> "classify", args |-> <<v>>, done |-> FALSE,
       result |-> <<FALSE, FALSE, FALSE>>] : v \in VersionGrid }

ClampCalls ==
    { [fn |-> "clamp", args |-> <<v, low, high>>, done |-> FALSE, result |-> 0] :
        v \in -MaxClamp..MaxClamp, low \in -MaxClamp..MaxClamp,
        high \in -MaxClamp..MaxClamp }

\* the sequences over S of length n, and of length up to n
RECURSIVE SeqsOfLen(_, _)
SeqsOfLen(S, n) ==
    IF n = 0 THEN { <<>> }
    ELSE { Append(q, x) : q \in SeqsOfLen(S, n - 1), x \in S }

SeqsUpTo(S, n) == UNION { SeqsOfLen(S, k) : k \in 0..n }

\* GITHUB_OAUTH_TOKEN in the environment: not set, set to nothing, set to a
\* token (with and without white space around it)
EnvValues ==
    { [set |-> FALSE, value |-> <<>>], [set |-> TRUE, value |-> <<>>],
      [set |-> TRUE, value |-> <<"t">>], [set |-> TRUE, value |-> <<" ", "t">>] }

\* what exec.Command("gh", "auth", "token").Output() gives: an error, or the
\* text the tool printed
CliOutcomes ==
    { [ok |-> FALSE, out |-> <<>>] }
      \cup { [ok |-> TRUE, out |-> o] : o \in SeqsUpTo({"t", " ", "\n"}, MaxOut) }

GetGHTokenCalls ==
    { [fn |-> "GetGHToken", args |-> <<e, cli>>, done |-> FALSE,
       result |-> [token |-> <<>>, fatal |-> "none", cli |-> FALSE]] :
        e \in EnvValues, cli \in CliOutcomes }

\* a model as initialModel builds it, and one helper call about to be made;
\* GetGHToken is called at startup, before the program with its fetch exists
InitCall ==
    /\ owner \in Owners
    /\ repo \in Repos
    /\ call \in ClassifyCalls \cup ClampCalls \cup GetGHTokenCalls
    /\ status = IF call.fn = "GetGHToken" THEN "starting" ELSE "running"
    /\ version = Ver(0, 0, 0, "")
    /\ fetch = [st |-> IF call.fn = "GetGHToken" THEN "unissued" ELSE "inflight",
                kind |-> "none", releases |-> NoReleases]
    /\ loaded = FALSE
    /\ releases = NoReleases
    /\ tagList = <<>>
    /\ focus = 0
    /\ viewport = ZeroViewport
    /\ viewReady = FALSE
    /\ err = "nil"
    /\ msg = "none"
    /\ setContentCalls = 0

\* isMajor, isMinor and isPatch applied to one version
Classify ==
    /\ call.fn = "classify" /\ ~call.done
    /\ call' = [call EXCEPT !.done = TRUE,
                  !.result = <<isMajor(call.args[1]), isMinor(call.args[1]),
                               isPatch(call.args[1])>>]
    /\ UNCHANGED session

\* clamp applied to three integers
Clamp ==
    /\ call.fn = "clamp" /\ ~call.done
    /\ call' = [call EXCEPT !.done = TRUE,
                  !.result = clamp(call.args[1], call.args[2], call.args[3])]
    /\ UNCHANGED session

\* GetGHToken called at startup; log.Fatal ends the process
ResolveToken ==
    /\ call.fn = "GetGHToken" /\ ~call.done /\ status = "starting"
    /\ call' = [call EXCEPT !.done = TRUE,
                  !.result = GetGHToken(call.args[1], call.args[2])]
    /\ status' = IF call'.result.fatal # "none" THEN "fatal" ELSE status
    /\ UNCHANGED <<owner, repo, version, fetch, loaded, releases, tagList,
                   focus, viewport, viewReady, err, msg, setContentCalls>>

\* the rest of main once it has a token: the client, tea.NewProgram and
\* model.Init, which issues getReleases
StartProgram ==
    /\ call.fn = "GetGHToken" /\ call.done /\ status = "starting"
    /\ status' = "running"
    /\ fetch' = [fetch EXCEPT !.st = "inflight"]
    /\ UNCHANGED <<owner, repo, call, version, loaded, releases, tagList,
                   focus, viewport, viewReady, err, msg, setContentCalls>>

NextCall == Classify \/ Clamp \/ ResolveToken \/ StartProgram

SpecCall == InitCall /\ [][NextCall]_vars

----------------------------------------------------------------------------
(* The views: a rendered string is the sequence of its pieces *)

\* m.owner + "/" + m.repo
RepoName(o, r) == [owner |-> o, sep |-> "/", repo |-> r]

\* the number of characters of a raw tag (single-digit numbers)
TagWidth(t) ==
    (CASE t.prefix = "" -> 0 [] t.prefix = "v" -> 1 [] OTHER -> 8) + 5
    + (CASE t.pre = "" -> 0 [] t.pre = "beta" -> 5 [] OTHER -> 6)

\* mutant of releaseList: the focused entry is recognised by its version
releaseListMutByVersion(tl, f) ==
    [i \in 1..Len(tl) |->
       [glyph |-> IF isMajor(tl[i].parsed) THEN "U+2587"
                  ELSE IF isMinor(tl[i].parsed) THEN "U+2585"
                  ELSE IF isPatch(tl[i].parsed) THEN "U+2582"
                  ELSE "_",
        style |-> IF tl[i].parsed = tl[f].parsed THEN "focusStyle"
                  ELSE "releaseStyle"]]

\* model.releaseList: one glyph per tag of m.tagList, in the list's order;
\* the blocks are named by their code points
releaseList(tl, f) ==
    [i \in 1..Len(tl) |->
       [glyph |-> IF isMajor(tl[i].parsed) THEN "U+2587"
                  ELSE IF isMinor(tl[i].parsed) THEN "U+2585"
                  ELSE IF isPatch(tl[i].parsed) THEN "U+2582"
                  ELSE "_",
        style |-> IF tl[i].tag = tl[f].tag THEN "focusStyle"
                  ELSE "releaseStyle"]]

\* model.headerView: the timeline, then the bordered title (the focused tag,
\* empty without a focus) joined with a rule filling the width
headerView(tl, f, vp) ==
    LET title == IF f # 0 THEN <<tl[f].tag>> ELSE <<>>
        width == (IF f # 0 THEN TagWidth(tl[f].tag) ELSE 0) + 4
    IN  releaseList(tl, f)
          \o << [title |-> title], [rule |-> Max(0, vp.Width - width)] >>

\* viewport.ScrollPercent()*100 as "%3.f" prints it
ScrollPercent(vp) ==
    IF vp.Height >= TotalLineCount(vp) THEN 100
    ELSE LET d == TotalLineCount(vp) - vp.Height
             q == (100 * vp.YOffset) \div d
             r == (100 * vp.YOffset) % d
             n == IF 2 * r < d \/ (2 * r = d /\ q % 2 = 0) THEN q ELSE q + 1
         IN  Max(0, Min(100, n))

\* mutant of footerView: content that fits exactly still gets a percentage
footerViewMutStrict(vp) ==
    IF VisibleLineCount(vp) > TotalLineCount(vp)
    THEN << [rule |-> vp.Width] >>
    ELSE << [rule |-> Max(0, vp.Width - 8)], [info |-> ScrollPercent(vp)] >>

\* model.footerView: a rule over the whole width, or a shorter rule joined
\* with the bordered scroll percentage
footerView(vp) ==
    IF VisibleLineCount(vp) >= TotalLineCount(vp)
    THEN << [rule |-> vp.Width] >>
    ELSE << [rule |-> Max(0, vp.Width - 8)], [info |-> ScrollPercent(vp)] >>

\* viewport.View(): the visible lines of the content
ViewportView(vp) ==
    << [content |-> vp.content, from |-> vp.YOffset,
        lines |-> VisibleLineCount(vp)] >>

\* model.View
View(o, r, ld, tl, f, vp) ==
    IF ld
    THEN headerView(tl, f, vp) \o ViewportView(vp) \o footerView(vp)
    ELSE << RepoName(o, r), [text |-> " Releases"], [text |-> "spinner"],
            [text |-> "loading..."], [text |-> "[q] quit [h] prev [l] next"] >>

----------------------------------------------------------------------------
(* Properties *)

\* the fetch succeeded and Update has handled its message
FetchSucceeded == fetch.st = "handled" /\ fetch.kind = "loadedReleases"

FetchedTags == DOMAIN fetch.releases

AllParse == \A t \in FetchedTags : NewVersion(t) # ParseError

SomeExceeds == \E t \in FetchedTags : GreaterThan(NewVersion(t), version)

\* the description of the focused release, rendered
FocusRendering == Render(releases[tagList[focus].tag])

\* C1: after a successful fetch of a non-empty release set with a release
\* above the starting version, the focus is on the first entry of the
\* ascending list that is greater than the starting version: every entry
\* before it is less than or equal to the starting version, and no entry
\* above the starting version is lower than it.
C1_InitialFocusFirstGreater ==
    (msg = "loadedReleases" /\ FetchSucceeded /\ AllParse /\ SomeExceeds) =>
        /\ status = "running" /\ loaded
        /\ focus \in 1..Len(tagList)
        /\ GreaterThan(tagList[focus].parsed, version)
        /\ \A j \in 1..(focus - 1) : Compare(tagList[j].parsed, version) <= 0
        /\ \A j \in 1..Len(tagList) :
              GreaterThan(tagList[j].parsed, version) =>
                 ~LessThan(tagList[j].parsed, tagList[focus].parsed)

\* C1 witness: the load has just put the focus behind an entry that does
\* not exceed the starting version
C1_Witness ==
    /\ msg = "loadedReleases" /\ loaded /\ focus > 1
    /\ Compare(tagList[focus - 1].parsed, version) <= 0

\* C2: after a successful fetch of a non-empty release set none of which
\* exceeds the starting version, the session goes on, loaded, with the
\* focus on the last (highest) entry.
C2_NoMatchFocusesLast ==
    (FetchSucceeded /\ AllParse /\ FetchedTags # {} /\ ~SomeExceeds) =>
        /\ status \in {"running", "quit"}
        /\ loaded
        /\ focus = Len(tagList) /\ focus # 0

\* C3: whenever the model is loaded the focus designates an element of the
\* list, and only the fetch-success, next and previous messages change it.
C3_FocusInRange ==
    [][ /\ loaded' => focus' \in 1..Len(tagList')
        /\ focus' # focus =>
              msg' \in {"loadedReleases"} \cup PrevKeys \cup NextKeys ]_vars

\* C3 witness: loaded, after navigation to the last of several entries
C3_Witness ==
    /\ loaded /\ msg \in NextKeys
    /\ Len(tagList) >= 2 /\ focus = Len(tagList)

\* C4: in a loaded session a "next" key (right, l) moves the focus to
\* min(focus+1, last): one position forward, or nowhere from the last entry.
C4_NextClamps ==
    [][ (loaded /\ msg' \in NextKeys) =>
            /\ focus' = Min(focus + 1, Len(tagList))
            /\ focus < Len(tagList) => focus' = focus + 1
            /\ focus = Len(tagList) => focus' = focus
            /\ status' = "running" ]_vars

\* C4 witness: "next" was pressed on the last of several entries
C4_Witness ==
    /\ loaded /\ msg \in NextKeys /\ setContentCalls = 0
    /\ Len(tagList) >= 2 /\ focus = Len(tagList)

\* C5: in a loaded session a "previous" key (left, h) moves the focus to
\* max(focus-1, first): one position back, or nowhere from the first entry.
C5_PreviousClamps ==
    [][ (loaded /\ msg' \in PrevKeys) =>
            /\ focus' = Max(focus - 1, 1)
            /\ focus > 1 => focus' = focus - 1
            /\ focus = 1 => focus' = focus
            /\ status' = "running" ]_vars

\* C5 witness: "previous" was pressed on the first of several entries
C5_Witness ==
    /\ loaded /\ msg \in PrevKeys /\ setContentCalls = 0
    /\ Len(tagList) >= 2 /\ focus = 1

\* C6: in every loaded state the viewport shows the rendering of the
\* focused release's description.
C6_ViewportShowsFocus ==
    loaded => viewport.content = FocusRendering

\* C7: a next/previous key that moves the focus replaces the viewport's
\* content exactly once, by the rendering of the newly focused release; one
\* that is a no-op at either end replaces nothing.
C7_OneRenderPerMove ==
    [][ (loaded /\ msg' \in PrevKeys \cup NextKeys) =>
            /\ focus' # focus =>
                  /\ setContentCalls' = 1
                  /\ viewport'.content = Render(releases[tagList[focus'].tag])
            /\ focus' = focus =>
                  /\ setContentCalls' = 0
                  /\ viewport' = viewport ]_vars

\* C7 witness: a navigation key has moved the focus and re-rendered once
C7_Witness ==
    /\ loaded /\ msg \in PrevKeys \cup NextKeys /\ setContentCalls = 1
    /\ viewport.content = FocusRendering

\* C8: when the fetch result is an error, the same Update records the error
\* and ends the session; the model is never loaded, the focus stays unset
\* and no later message is handled.
C8_FetchErrorTerminates ==
    (fetch.st = "handled" /\ fetch.kind = "errMsg") =>
        /\ status = "quit"
        /\ err = "fetch error"
        /\ ~loaded /\ focus = 0 /\ tagList = <<>>
        /\ msg = "errMsg"

\* C8 witness: the fetch failed in a session whose viewport was initialised
C8_Witness ==
    /\ fetch.st = "handled" /\ fetch.kind = "errMsg"
    /\ status = "quit" /\ viewReady

\* C9: a terminal resize leaves focus, loaded, the list, the release map,
\* the error and the fetch alone; the first one initialises the viewport,
\* every later one changes nothing but the viewport's width and height.
C9_ResizeFrame ==
    [][ msg' = "WindowSizeMsg" =>
            /\ UNCHANGED <<focus, loaded, tagList, releases, fetch, err,
                           version, status>>
            /\ viewReady'
            /\ viewReady =>
                  viewport' = [viewport EXCEPT !.Width = viewport'.Width,
                                               !.Height = viewport'.Height] ]_vars

\* C9 witness: a loaded session, scrolled down, has been resized again
C9_Witness ==
    /\ msg = "WindowSizeMsg" /\ loaded /\ viewReady
    /\ viewport.YOffset > 0 /\ viewport.content = FocusRendering

C11_MalformedTagIsFatal ==
    /\ (FetchSucceeded /\ ~AllParse) =>
          /\ status = "fatal" /\ msg = "loadedReleases"
          /\ ~loaded /\ tagList = <<>> /\ focus = 0
    /\ loaded =>
          /\ AllParse
          /\ { tagList[i].tag : i \in 1..Len(tagList) } = FetchedTags

\* C11 witness: the fetch returned a malformed tag next to well-formed ones
C11_Witness ==
    /\ FetchSucceeded /\ ~AllParse /\ status = "fatal"
    /\ \E t \in FetchedTags : NewVersion(t) # ParseError

\* C14: the session starts not loaded and without focus; loaded becomes
\* true only in the Update that handles the fetch-success message, which
\* happens at most once, and never becomes false again.
C14_LoadedOnce ==
    /\ ~loaded /\ focus = 0
    /\ [][ /\ (~loaded /\ loaded') => msg' = "loadedReleases"
           /\ loaded => loaded'
           /\ (msg' = "loadedReleases" /\ fetch' # fetch) =>
                 (fetch.st = "inflight" /\ fetch'.st = "handled") ]_vars

\* C14 witness: a loaded session that handled further messages
C14_Witness ==
    /\ loaded /\ FetchSucceeded /\ viewReady /\ msg \in ScrollKeys

\* C12: the three classes exclude one another, so every version is exactly
\* one of major (minor = 0, patch = 0, no prerelease), minor (minor # 0,
\* patch = 0, no prerelease), patch (patch # 0, no prerelease) or other (none
\* of the three); a version with a prerelease is other.
C12_ClassificationPartition ==
    (call.fn = "classify" /\ call.done) =>
        LET v     == call.args[1]
            major == call.result[1]
            minor == call.result[2]
            patch == call.result[3]
            other == ~major /\ ~minor /\ ~patch
        IN  /\ Cardinality({ c \in {"major", "minor", "patch", "other"} :
                  \/ c = "major" /\ major
                  \/ c = "minor" /\ minor
                  \/ c = "patch" /\ patch
                  \/ c = "other" /\ other }) = 1
            /\ major <=> (v.minor = 0 /\ v.patch = 0 /\ v.pre = "")
            /\ minor <=> (v.minor # 0 /\ v.patch = 0 /\ v.pre = "")
            /\ patch <=> (v.patch # 0 /\ v.pre = "")
            /\ v.pre # "" => other

\* C12 witness: a prerelease of an x.0.0 version has been classified
C12_Witness ==
    /\ call.fn = "classify" /\ call.done
    /\ call.args[1].minor = 0 /\ call.args[1].patch = 0
    /\ call.args[1].pre # "" /\ call.result = <<FALSE, FALSE, FALSE>>

\* C19: clamp(v, low, high) lies between the smaller and the larger of low
\* and high, is v when v already lies there, and is the same with low and
\* high exchanged.
C19_ClampRange ==
    (call.fn = "clamp" /\ call.done) =>
        LET v  == call.args[1]
            lo == IF call.args[2] <= call.args[3] THEN call.args[2] ELSE call.args[3]
            hi == IF call.args[2] <= call.args[3] THEN call.args[3] ELSE call.args[2]
        IN  /\ lo <= call.result /\ call.result <= hi
            /\ (lo <= v /\ v <= hi) => call.result = v
            /\ v < lo => call.result = lo
            /\ v > hi => call.result = hi
            /\ call.result = clamp(v, call.args[3], call.args[2])

\* C19 witness: clamp was called with an inverted range and a value above it
C19_Witness ==
    /\ call.fn = "clamp" /\ call.done
    /\ call.args[2] > call.args[3] /\ call.args[1] > call.args[2]
    /\ call.result = call.args[2]

\* C13: in every loaded state the timeline has one glyph per entry of the
\* ordered sequence, in its ascending order, chosen by the entry's class;
\* exactly one glyph has the focus style, the one at the focus position, and
\* every other glyph has the muted style.
C13_TimelineOneFocus ==
    loaded =>
        LET rl == releaseList(tagList, focus)
        IN  /\ Len(rl) = Len(tagList)
            /\ \A i \in 1..Len(tagList) :
                 LET v == tagList[i].parsed
                 IN  /\ v.pre = "" /\ v.minor = 0 /\ v.patch = 0 => rl[i].glyph = "U+2587"
                     /\ v.pre = "" /\ v.minor # 0 /\ v.patch = 0 => rl[i].glyph = "U+2585"
                     /\ v.pre = "" /\ v.patch # 0 => rl[i].glyph = "U+2582"
                     /\ v.pre # "" => rl[i].glyph = "_"
            /\ \A i, j \in 1..Len(tagList) :
                 i < j => ~LessThan(tagList[j].parsed, tagList[i].parsed)
            /\ Cardinality({ i \in 1..Len(rl) : rl[i].style = "focusStyle" }) = 1
            /\ rl[focus].style = "focusStyle"
            /\ \A i \in 1..Len(rl) : i # focus => rl[i].style = "releaseStyle"

\* C13 witness: after a move the focus is on one of two tags of the same
\* version, and the timeline also has a prerelease
C13_Witness ==
    /\ loaded /\ msg \in NextKeys /\ focus > 1
    /\ \E i \in 1..Len(tagList) :
         i # focus /\ tagList[i].parsed = tagList[focus].parsed
    /\ \E i \in 1..Len(tagList) : tagList[i].parsed.pre # ""

\* C16: in every state of the session the rendered header contains
\* "<owner>/<repo>".
C16_HeaderContainsRepo ==
    status = "running" =>
        LET h == headerView(tagList, focus, viewport)
        IN  \E i \in 1..Len(h) : h[i] = RepoName(owner, repo)

\* C20: the footer is the flat divider exactly when the number of content
\* lines inside the viewport's window is at least the number of content
\* lines; otherwise it carries the scroll percentage.
C20_FooterDividerIffFits ==
    LET total   == TotalLineCount(viewport)
        visible == Cardinality({ n \in 1..total :
                      n > viewport.YOffset /\ n <= viewport.YOffset + viewport.Height })
        fv      == footerView(viewport)
    IN  /\ visible >= total <=> fv = << [rule |-> viewport.Width] >>
        /\ visible < total =>
             /\ Len(fv) = 2
             /\ fv[2].info \in 0..100
             /\ viewport.YOffset = 0 /\ viewport.Height < total => fv[2].info = 0

\* C20 witness: a loaded session scrolled part of the way down a long body
C20_Witness ==
    /\ loaded /\ viewReady /\ msg \in ScrollKeys /\ viewport.YOffset > 0
    /\ LET fv == footerView(viewport)
       IN  Len(fv) = 2 /\ fv[2].info \in 1..99

\* C15: each of q, ctrl+c and esc can be pressed whenever the session runs,
\* loaded or not, and ends it; the model (focus, content, viewport) and the
\* fetch are left as they were.
C15_QuitKeys ==
    /\ [](status = "running" =>
            \A k \in QuitKeys : ENABLED (UpdateKeyQuit /\ msg' = k))
    /\ [][ (status = "running" /\ msg' \in QuitKeys) =>
              /\ status' = "quit"
              /\ UNCHANGED <<model, fetch>> ]_vars

\* C15 witness: esc ended a session whose fetch was still in flight
C15_Witness ==
    /\ status = "quit" /\ msg = "esc"
    /\ ~loaded /\ fetch.st = "inflight"

\* C17 (as stated): with the default starting version 0.0.0, for every
\* non-empty fetched release set the session is loaded with the focus on the
\* lowest release, position 0 of the ordered sequence.
C17_DefaultFocusesLowest ==
    (version = Ver(0, 0, 0, "") /\ FetchSucceeded /\ FetchedTags # {}) =>
        /\ loaded
        /\ msg = "loadedReleases" => focus = 1

\* C17 (amended): with the default starting version 0.0.0, for every fetched
\* release set whose tags all parse and that has a release above 0.0.0, the
\* initial focus is the lowest release above 0.0.0; it is position 0 when no
\* release is versioned 0.0.0 or below.
C17_DefaultFocusesLowestAbove ==
    (version = Ver(0, 0, 0, "") /\ FetchSucceeded /\ AllParse /\ SomeExceeds) =>
        /\ loaded
        /\ msg = "loadedReleases" =>
             /\ GreaterThan(tagList[focus].parsed, version)
             /\ \A i \in 1..(focus - 1) : ~GreaterThan(tagList[i].parsed, version)
             /\ (\A t \in FetchedTags : GreaterThan(NewVersion(t), version)) => focus = 1

\* C17 witness: a set with a release 0.0.0 was loaded from the default
\* starting version, and the focus is on the release after it
C17_Witness ==
    /\ version = Ver(0, 0, 0, "") /\ loaded /\ msg = "loadedReleases"
    /\ focus = 2 /\ tagList[1].parsed = Ver(0, 0, 0, "")

C22_BuiltOnce ==
    /\ [](loaded =>
            /\ releases = fetch.releases
            /\ Len(tagList) = Cardinality(FetchedTags)
            /\ \A t \in FetchedTags :
                 \E i \in 1..Len(tagList) :
                    tagList[i].tag = t /\ tagList[i].parsed = NewVersion(t))
    /\ [][ loaded => (tagList' = tagList /\ releases' = releases) ]_vars

\* C22 witness: a loaded session with several releases was moved, scrolled
\* or resized
C22_Witness ==
    /\ loaded /\ Len(tagList) >= 2 /\ viewReady /\ focus = 2
    /\ msg \in ScrollKeys /\ viewport.YOffset > 0

\* C23: the links make the tag list a flat sequence (first entry without
\* prev, last without next, entry i between i-1 and i+1), and following a
\* link on a next or previous key lands on the entry at the clamped index.
C23_LinksRefineFlatIndex ==
    /\ [](loaded =>
            \A i \in 1..Len(tagList) :
               /\ tagList[i].prev = (IF i = 1 THEN 0 ELSE i - 1)
               /\ tagList[i].next = (IF i = Len(tagList) THEN 0 ELSE i + 1))
    /\ [][ (loaded /\ msg' \in PrevKeys \cup NextKeys) =>
              LET d    == IF msg' \in NextKeys THEN 1 ELSE -1
                  flat == IF focus + d < 1 THEN 1
                          ELSE IF focus + d > Len(tagList) THEN Len(tagList)
                          ELSE focus + d
              IN  focus' = flat /\ tagList'[focus'] = tagList[flat] ]_vars

\* C23 witness: "previous" moved the focus back to the first of three
C23_Witness ==
    /\ loaded /\ msg \in PrevKeys /\ setContentCalls = 1
    /\ Len(tagList) = 3 /\ focus = 1

\* C24: a next or previous key handled before the releases arrived leaves
\* the session running and the model as it was.
C24_NavigationBeforeLoad ==
    [][ (status = "running" /\ ~loaded /\ msg' \in PrevKeys \cup NextKeys) =>
            /\ status' = "running"
            /\ UNCHANGED <<model, fetch>> ]_vars

\* C25: a successful fetch of no releases does not make the session fail.
C25_EmptyReleaseSet ==
    (FetchSucceeded /\ FetchedTags = {}) => status \notin {"crashed", "fatal"}

\* C26: in every loaded state the focused entry's tag is a key of the
\* release map, the raw tag of a fetched release with its prefix as fetched.
C26_FocusIsReleaseKey ==
    loaded =>
        /\ focus \in 1..Len(tagList)
        /\ tagList[focus].tag \in DOMAIN releases
        /\ tagList[focus].tag \in FetchedTags
        /\ releases[tagList[focus].tag] \in Descriptions

\* C26 witness: after a move the focus is on a release tagged without "v"
C26_Witness ==
    /\ loaded /\ msg \in PrevKeys \cup NextKeys /\ setContentCalls = 1
    /\ tagList[focus].tag.prefix = ""

====
